---- MODULE Spec2Model ----
(***************************************************************************)
(* A model of solarWeather.py: the GOES X-ray flux pipeline.               *)
(*                                                                         *)
(* Units.  A flux is an integer number of 1e-10 W/m^2, so the flare        *)
(* thresholds 1e-8 .. 1e-4 are 100 .. 1000000.  A time is an integer       *)
(* number of ticks, TicksPerHour ticks to the hour.  A sub-class is kept   *)
(* in hundredths (the two decimals of Python's ":.2f").                    *)
(***************************************************************************)
EXTENDS Integers, Sequences, FiniteSets, TLC

VARIABLES
    pc,           \* position of the running call / of __main__
    response,     \* what the provider answers to fetch_json's GET
    flux,         \* flare_class: its argument
    label,        \* flare_class: its return value
    rows,         \* raw records: fetch_json's result, filter_data's result
    entries,      \* split_entries' result (main's `data` after line 232)
    hours,        \* getLastNHoras: the window length, in ticks
    data2h,       \* the windowed slice (main's `data2h`)
    dataSummary,  \* summary's result, <<>> while there is none
    payload,      \* main's payload, <<>> while there is none
    csvFile,      \* the characters save_file wrote, as a sequence of pieces
    jsonFile,     \* what write_file dumped, <<>> while there is none
    stdout,       \* the lines printed so far
    err           \* the exception that ended the call, "" while there is none

vars == <<pc, response, flux, label, rows, entries, hours, data2h,
          dataSummary, payload, csvFile, jsonFile, stdout, err>>

\* ---------------------------------------------------------------- bounds

MaxRows == 3
MaxMant == 12
TicksPerHour == 2

SeqsUpTo(S, n) == UNION {[1..k -> S] : k \in 0..n}

RECURSIVE Pow10(_)
Pow10(k) == IF k = 0 THEN 1 ELSE 10 * Pow10(k - 1)

\* ------------------------------------------------------- the flare scale

FLARE_OFFSETS ==
    << [flare |-> "A", offset |-> 100],
       [flare |-> "B", offset |-> 1000],
       [flare |-> "C", offset |-> 10000],
       [flare |-> "M", offset |-> 100000],
       [flare |-> "X", offset |-> 1000000] >>

STRONG_FLARE == FLARE_OFFSETS[5].offset

\* flux >= STRONG_FLARE
is_x_flare_strict(f) == f > STRONG_FLARE
is_x_flare(f) == f >= STRONG_FLARE

\* str(offset) of a Python float: what f"{offset}" renders.
FloatRepr(offset) ==
    CASE offset = 100     -> "1e-08"
      [] offset = 1000    -> "1e-07"
      [] offset = 10000   -> "1e-06"
      [] offset = 100000  -> "1e-05"
      [] offset = 1000000 -> "0.0001"

\* f"{(num/den):.2f}" for num >= 0, den > 0: the quotient in hundredths,
\* rounded to nearest, ties to even.
Fmt2(num, den) ==
    LET q == (num * 100) \div den
        r == (num * 100) % den
    IN  IF 2 * r > den \/ (2 * r = den /\ q % 2 = 1) THEN q + 1 ELSE q

Label(head, sub) == [head |-> head, sub |-> sub]

\* The for loop of flare_class from index i on; falls through to line 100.
RECURSIVE FlareScan(_, _)
FlareScan(f, i) ==
    IF i > Len(FLARE_OFFSETS) THEN Label("A", Fmt2(f, 100))
    ELSE IF f >= FLARE_OFFSETS[i].offset
         THEN Label(FloatRepr(FLARE_OFFSETS[i].offset),
                    Fmt2(f, FLARE_OFFSETS[i].offset))
         ELSE FlareScan(f, i + 1)

flare_class(f) == IF f <= 0 THEN Label("A", 0) ELSE FlareScan(f, 1)

\* ------------------------------------------------------------ timestamps

\* A timestamp string: iso says whether datetime.fromisoformat accepts its
\* date-time part, wall is the wall-clock reading in ticks, suffix the
\* zone designator that ends it ("" when the string names no offset).
TimeStr(iso, wall, suffix) == [iso |-> iso, wall |-> wall, suffix |-> suffix]

Garbage == TimeStr(FALSE, 0, "")

\* The UTC offset a designator stands for, in ticks.
OffsetTicks(suffix) ==
    CASE suffix = "+00:00" -> 0
      [] suffix = "+01:00" -> TicksPerHour
      [] suffix = "-01:00" -> 0 - TicksPerHour

Ok(v) == [ok |-> TRUE, val |-> v, exc |-> ""]
Raise(e) == [ok |-> FALSE, val |-> 0, exc |-> e]

\* datetime.fromisoformat(s): a "Z" is not an offset it reads (the reason
\* for line 210); the value is the wall clock and the offset, if any.
fromisoformat(s) ==
    IF ~s.iso \/ s.suffix \notin {"", "+00:00", "+01:00", "-01:00"}
    THEN Raise("ValueError")
    ELSE Ok([wall |-> s.wall, aware |-> s.suffix # "",
             off |-> IF s.suffix = "" THEN 0 ELSE OffsetTicks(s.suffix)])

\* timeConvert: the UTC instant, in ticks, or the exception raised.
timeConvert(time_stamp) ==
    LET s == IF time_stamp.suffix = "Z"
             THEN [time_stamp EXCEPT !.suffix = "+00:00"] ELSE time_stamp
        d == fromisoformat(s)
    IN  IF ~d.ok THEN d
        ELSE LET dt == IF ~d.val.aware
                       THEN [d.val EXCEPT !.aware = TRUE, !.off = 0]
                       ELSE d.val
             IN  Ok(dt.wall - dt.off)

\* datetime.isoformat() of an aware UTC datetime.
isoformat(t) == TimeStr(TRUE, t, "+00:00")

\* ----------------------------------------------------------- raw records

\* A JSON value of a raw record, by what float() makes of it: a number, a
\* numeric string, another string, null; "absent" when the key is missing.
Absent == [t |-> "absent", n |-> 0]
Num(n) == [t |-> "num", n |-> n]
NumStr(n) == [t |-> "numstr", n |-> n]
Text == [t |-> "text", n |-> 0]
Null == [t |-> "null", n |-> 0]

float(v) ==
    CASE v.t \in {"num", "numstr"} -> Ok(v.n)
      [] v.t = "text" -> Raise("ValueError")
      [] v.t = "null" -> Raise("TypeError")

\* The "energy" value of a raw record: a string, as a body with leading and
\* trailing blanks, or "absent" when the key is missing.
Energy(lead, body, trail) ==
    [t |-> "str", lead |-> lead, body |-> body, trail |-> trail]
NoEnergy == [t |-> "absent", lead |-> 0, body |-> "", trail |-> 0]
strip(e) == Energy(0, e.body, 0)

\* i.get("energy", "")
get_energy(i) == IF i.energy.t = "absent" THEN Energy(0, "", 0) ELSE i.energy

filter_data(rs, energy) ==
    SelectSeq(rs, LAMBDA i : strip(get_energy(i)) = energy)

\* A raw record.  has_time says whether the key "time_tag" is there.
Raw(energy, has_time, time_tag, fl, obs) ==
    [energy |-> energy, has_time |-> has_time, time_tag |-> time_tag,
     flux |-> fl, observed_flux |-> obs]

xrayEntry(t, f, o) == [time_utc |-> t, flux |-> f, observed_flux |-> o]

\* The body of the try of split_entries for one record: the entry, or the
\* exception raised by the first statement that fails.
TryEntry_obsDefault(i) ==
    IF ~i.has_time THEN Raise("KeyError")
    ELSE LET time == timeConvert(i.time_tag) IN
    IF ~time.ok THEN time
    ELSE IF i.flux.t = "absent" THEN Raise("KeyError")
    ELSE LET fl == float(i.flux) IN
    IF ~fl.ok THEN fl
    ELSE LET obs == IF i.observed_flux.t = "absent" THEN fl
                    ELSE float(i.observed_flux) IN
    IF ~obs.ok THEN Ok(xrayEntry(time.val, fl.val, fl.val))
    ELSE Ok(xrayEntry(time.val, fl.val, obs.val))

TryEntry(i) ==
    IF ~i.has_time THEN Raise("KeyError")
    ELSE LET time == timeConvert(i.time_tag) IN
    IF ~time.ok THEN time
    ELSE IF i.flux.t = "absent" THEN Raise("KeyError")
    ELSE LET fl == float(i.flux) IN
    IF ~fl.ok THEN fl
    ELSE LET obs == IF i.observed_flux.t = "absent" THEN fl
                    ELSE float(i.observed_flux) IN
    IF ~obs.ok THEN obs
    ELSE Ok(xrayEntry(time.val, fl.val, obs.val))

\* `except Exception`: every exception a record can raise is caught.
Caught_valueErrorOnly(exc) == exc = "ValueError"
Caught(exc) == exc \in {"KeyError", "ValueError", "TypeError"}

\* The for loop of split_entries: acc is `entries` so far; an exception the
\* except clause does not catch ends the call.
RECURSIVE SplitLoop(_, _)
SplitLoop(data, acc) ==
    IF data = <<>> THEN Ok(acc)
    ELSE LET r == TryEntry(Head(data)) IN
         IF r.ok THEN SplitLoop(Tail(data), Append(acc, r.val))
         ELSE IF Caught(r.exc) THEN SplitLoop(Tail(data), acc)
         ELSE r

\* list.sort(key=time_utc) is stable: an element goes after every element
\* whose key is not greater.
RECURSIVE InsertByTime_beforeTies(_, _)
InsertByTime_beforeTies(sorted, e) ==
    IF sorted = <<>> THEN <<e>>
    ELSE IF Head(sorted).time_utc < e.time_utc
         THEN <<Head(sorted)>> \o InsertByTime_beforeTies(Tail(sorted), e)
         ELSE <<e>> \o sorted

RECURSIVE InsertByTime(_, _)
InsertByTime(sorted, e) ==
    IF sorted = <<>> THEN <<e>>
    ELSE IF Head(sorted).time_utc <= e.time_utc
         THEN <<Head(sorted)>> \o InsertByTime(Tail(sorted), e)
         ELSE <<e>> \o sorted

RECURSIVE SortByTime(_)
SortByTime(s) ==
    IF s = <<>> THEN <<>>
    ELSE InsertByTime(SortByTime(SubSeq(s, 1, Len(s) - 1)), s[Len(s)])

split_entries(data) ==
    LET r == SplitLoop(data, <<>>) IN
    IF r.ok THEN Ok(SortByTime(r.val)) ELSE r

\* ------------------------------------------------------------ the window

\* timedelta(hours=h), h given in ticks.
timedelta(h) == h

getLastNHoras_openStart(es, h) ==
    IF es = <<>> THEN <<>>
    ELSE LET end == es[Len(es)].time_utc
             start == end - timedelta(h)
         IN  SelectSeq(es, LAMBDA i : start < i.time_utc /\ i.time_utc <= end)

getLastNHoras(es, h) ==
    IF es = <<>> THEN <<>>
    ELSE LET end == es[Len(es)].time_utc
             start == end - timedelta(h)
         IN  SelectSeq(es, LAMBDA i : start <= i.time_utc /\ i.time_utc <= end)

\* ----------------------------------------------------------- the summary

\* A JSON value of the summary: a number or a string (a class label).
JNum(n) == [t |-> "num", n |-> n, s |-> Label("", 0)]
JStr(l) == [t |-> "str", n |-> 0, s |-> l]

\* max(i.flux for i in entries), entries not empty.
RECURSIVE MaxFlux(_)
MaxFlux(es) ==
    IF Len(es) = 1 THEN es[1].flux
    ELSE LET m == MaxFlux(Tail(es)) IN
         IF m > es[1].flux THEN m ELSE es[1].flux

summary_defaulting(es) ==
    Ok([start_time_utc |-> isoformat(IF es = <<>> THEN 0 ELSE es[1].time_utc),
        end_time_utc |->
            isoformat(IF es = <<>> THEN 0 ELSE es[Len(es)].time_utc),
        amount_of_nodes |-> Len(es),
        current_flux |-> JNum(IF es = <<>> THEN 0 ELSE es[Len(es)].flux),
        current_class |->
            JStr(flare_class(IF es = <<>> THEN 0 ELSE es[Len(es)].flux)),
        max_flux |-> JStr(flare_class(IF es = <<>> THEN 0 ELSE MaxFlux(es))),
        max_class |-> JStr(flare_class(IF es = <<>> THEN 0 ELSE MaxFlux(es)))])

summary(es) ==
    IF es = <<>> THEN Raise("ValueError")
    ELSE LET curr == es[Len(es)].flux
             max_flux == MaxFlux(es)
         IN  Ok([start_time_utc |-> isoformat(es[1].time_utc),
                 end_time_utc |-> isoformat(es[Len(es)].time_utc),
                 amount_of_nodes |-> Len(es),
                 current_flux |-> JNum(curr),
                 current_class |-> JStr(flare_class(curr)),
                 max_flux |-> JStr(flare_class(max_flux)),
                 max_class |-> JStr(flare_class(max_flux))])

\* ------------------------------------------------------------- the alert

\* max(entries, key=flux): the first entry of the largest flux.
RECURSIVE Strongest(_)
Strongest(es) ==
    IF Len(es) = 1 THEN es[1]
    ELSE LET m == Strongest(Tail(es)) IN
         IF m.flux > es[1].flux THEN m ELSE es[1]

ALERT == "STRONG ASS FLARE DETECTED"

\* x_flare_Alert: the lines it prints.
x_flare_Alert(es) ==
    IF es = <<>> THEN <<>>
    ELSE IF ~is_x_flare(Strongest(es).flux) THEN <<>>
    ELSE <<ALERT>>

\* ------------------------------------------------------------ the export

\* A piece of written text: a literal, a timestamp, a number in ".10e"
\* notation, a class label, a comma or a line break.
Piece(k, s, t, n, l) == [k |-> k, s |-> s, t |-> t, n |-> n, l |-> l]
Txt(s) == Piece("txt", s, Garbage, 0, Label("", 0))
Stamp(t) == Piece("time", "", t, 0, Label("", 0))
Exp10(n) == Piece("num", "", Garbage, n, Label("", 0))
Lbl(l) == Piece("label", "", Garbage, 0, l)
Comma == Piece("comma", ",", Garbage, 0, Label("", 0))
Newline == Piece("nl", "", Garbage, 0, Label("", 0))

Header ==
    <<Txt("TIME(UTC)"), Comma, Txt("FLUX"), Comma, Txt("OBSERVED_FLUX"),
      Comma, Txt("FLARE_OFFSET"), Comma, Txt("CONTAMINATED")>>


\* The f.write of one entry.
EntryLine(i) ==
    <<Stamp(isoformat(i.time_utc)), Comma, Exp10(i.flux), Comma,
      Exp10(i.observed_flux), Comma, Lbl(flare_class(i.flux)), Newline>>

RECURSIVE WriteEntries(_)
WriteEntries(es) ==
    IF es = <<>> THEN <<>> ELSE EntryLine(Head(es)) \o WriteEntries(Tail(es))

\* save_file: everything written to the file, in order.
save_file(es) == Header \o WriteEntries(es)

\* Reading the file back: its lines, and the comma-separated fields of a
\* line; a field is the text between two separators.
RECURSIVE SplitAt(_, _, _)
SplitAt(text, sep, cur) ==
    IF text = <<>> THEN (IF cur = <<>> THEN <<>> ELSE <<cur>>)
    ELSE IF Head(text).k = sep
         THEN <<cur>> \o SplitAt(Tail(text), sep, <<>>)
         ELSE SplitAt(Tail(text), sep, Append(cur, Head(text)))

Lines(text) == SplitAt(text, "nl", <<>>)
Fields(line) ==
    IF line = <<>> THEN <<>>
    ELSE LET fs == SplitAt(line, "comma", <<>>) IN
         IF line[Len(line)].k = "comma" THEN Append(fs, <<>>) ELSE fs

\* timeConvert of a field's text: only a field that is one timestamp parses.
ParseTimeField(field) ==
    IF Len(field) = 1 /\ field[1].k = "time" THEN timeConvert(field[1].t)
    ELSE Raise("ValueError")

\* ---------------------------------------------------------------- values

NoLabel == Label("", 0)

\* The provider's answer: the HTTP status, whether the JSON body is a list,
\* and the records of the body.
Response(status, is_list, body) ==
    [status |-> status, is_list |-> is_list, body |-> body]
NoResponse == Response("none", FALSE, <<>>)

\* The state a call starts in: its arguments set, nothing produced yet.
Start(p, f, r, e, h, d) ==
    /\ pc = p
    /\ response = NoResponse
    /\ flux = f
    /\ label = NoLabel
    /\ rows = r
    /\ entries = e
    /\ hours = h
    /\ data2h = d
    /\ dataSummary = <<>>
    /\ payload = <<>>
    /\ csvFile = <<>>
    /\ jsonFile = <<>>
    /\ stdout = <<>>
    /\ err = ""

\* ------------------------------------------------ flare_class, on its own

FluxDomain ==
    {-1, 0, 50, 99, 55000, 999999}
        \cup {m * Pow10(k) : m \in 1..MaxMant, k \in 0..6}

InitClassify == \E f \in FluxDomain : Start("call", f, <<>>, <<>>, 0, <<>>)

CallFlareClass ==
    /\ pc = "call"
    /\ label' = flare_class(flux)
    /\ pc' = "ret"
    /\ UNCHANGED <<response, flux, rows, entries, hours, data2h, dataSummary,
                   payload, csvFile, jsonFile, stdout, err>>

SpecClassify == InitClassify /\ [][CallFlareClass]_vars

\* The class the flare scale assigns: the strongest one whose bound f meets.
ExpectedClass(f) ==
    LET met == {i \in 1..Len(FLARE_OFFSETS) : FLARE_OFFSETS[i].offset <= f}
        top == CHOOSE i \in met : \A j \in met : j <= i
    IN  Label(FLARE_OFFSETS[top].flare, Fmt2(f, FLARE_OFFSETS[top].offset))

\* C1: for every flux at or above the A threshold, flare_class returns the
\* letter of the highest class whose lower bound is <= flux, followed by
\* flux / lowerBound to two decimals (so 1e-4 gives "X1.00", 5.5e-6 "C5.50").
C1_StrongestFirst ==
    (pc = "ret" /\ flux >= FLARE_OFFSETS[1].offset)
        => label = ExpectedClass(flux)

\* --------------------------------------------- split_entries, on its own

Band == Energy(0, "0.1-0.8nm", 0)

Z1 == TimeStr(TRUE, 1, "Z")
P1 == TimeStr(TRUE, 1 + TicksPerHour, "+01:00")
M2 == TimeStr(TRUE, 2 - TicksPerHour, "-01:00")
N0 == TimeStr(TRUE, 0, "")

SplitRecords ==
    {Raw(Band, TRUE, tt, Num(50), Absent) : tt \in {Z1, P1, M2, N0, Garbage}}
        \cup {Raw(Band, FALSE, Garbage, Num(50), Absent)}
        \cup {Raw(Band, TRUE, Z1, f, o) :
                 f \in {Absent, Text, Null, NumStr(2000000)},
                 o \in {Absent, Num(7)}}
        \cup {Raw(Band, TRUE, Z1, Num(50), o) : o \in {Text, Null, NumStr(7)}}
        \cup {Raw(Band, TRUE, N0, NumStr(2000000), Text)}

InitSplit ==
    \E r \in SeqsUpTo(SplitRecords, MaxRows) :
        Start("call", 0, r, <<>>, 0, <<>>)

CallSplitEntries ==
    /\ pc = "call"
    /\ LET r == split_entries(rows) IN
       IF r.ok THEN /\ entries' = r.val
                    /\ pc' = "ret"
                    /\ err' = err
               ELSE /\ entries' = entries
                    /\ pc' = "raised"
                    /\ err' = r.exc
    /\ UNCHANGED <<response, flux, label, rows, hours, data2h, dataSummary,
                   payload, csvFile, jsonFile, stdout>>

SpecSplit == InitSplit /\ [][CallSplitEntries]_vars

Count(seq, Test(_)) == Cardinality({k \in DOMAIN seq : Test(seq[k])})
Range(seq) == {seq[k] : k \in DOMAIN seq}

\* A record whose timestamp parses and whose flux is numeric.
GoodTimeAndFlux(r) ==
    /\ r.has_time /\ timeConvert(r.time_tag).ok
    /\ r.flux.t # "absent" /\ float(r.flux).ok

ObsAbsent(r) == r.observed_flux.t = "absent"
ObsNumeric(r) == ~ObsAbsent(r) /\ float(r.observed_flux).ok

\* The sample a record stands for: the secondary reading when it is there
\* and numeric, the primary flux otherwise.
SampleOf(r) ==
    xrayEntry(timeConvert(r.time_tag).val, float(r.flux).val,
              IF ObsNumeric(r) THEN float(r.observed_flux).val
              ELSE float(r.flux).val)

\* entries holds, as a multiset, exactly the samples of the records of
\* rows that satisfy Maps.
HoldsExactly(Maps(_)) ==
    LET want == {SampleOf(r) : r \in {x \in Range(rows) : Maps(x)}}
    IN  \A e \in want \cup Range(entries) :
            Count(entries, LAMBDA x : x = e)
                = Count(rows, LAMBDA r : Maps(r) /\ SampleOf(r) = e)

\* C4 as stated: every record with a parseable timestamp and a numeric flux
\* yields a sample, whose observed_flux is the secondary reading when numeric
\* and the primary flux when the secondary is absent or unreadable.
C4_BadSecondaryKept ==
    pc = "ret" => HoldsExactly(GoodTimeAndFlux)

\* C4 amended: a record with a parseable timestamp and a numeric flux yields
\* a sample exactly when its secondary reading is absent or numeric; the
\* sample's observed_flux is the secondary reading when present, the primary
\* flux when absent.  A present but unreadable secondary drops the record.
C4_BadSecondaryDropped ==
    pc = "ret" =>
        HoldsExactly(LAMBDA r : GoodTimeAndFlux(r)
                                  /\ (ObsAbsent(r) \/ ObsNumeric(r)))

C4_Witness ==
    /\ pc = "ret"
    /\ \E j, k, l \in DOMAIN rows :
          /\ GoodTimeAndFlux(rows[j]) /\ ObsAbsent(rows[j])
          /\ GoodTimeAndFlux(rows[k]) /\ ObsNumeric(rows[k])
          /\ GoodTimeAndFlux(rows[l])
          /\ ~ObsAbsent(rows[l]) /\ ~ObsNumeric(rows[l])
    /\ Len(entries) = 2

\* The samples in the order the loop appended them, before the sort.
Appended == SplitLoop(rows, <<>>).val

AtTime(seq, t) == SelectSeq(seq, LAMBDA e : e.time_utc = t)

\* C5: the result of split_entries is sorted non-decreasing by time_utc and
\* samples with equal timestamps keep the order their records had in the input.
C5_SortedStable ==
    pc = "ret" =>
        /\ \A j, k \in DOMAIN entries :
              j < k => entries[j].time_utc <= entries[k].time_utc
        /\ \A t \in {e.time_utc : e \in Range(entries)} :
              AtTime(entries, t) = AtTime(Appended, t)

C5_Witness ==
    /\ pc = "ret"
    /\ Len(entries) = 3
    /\ entries # Appended
    /\ entries[1].time_utc < entries[2].time_utc
    /\ entries[2].time_utc = entries[3].time_utc
    /\ entries[2] # entries[3]

MaxTime == 3
MaxHours == 3

IsSorted(es) ==
    \A j, k \in DOMAIN es : j < k => es[j].time_utc <= es[k].time_utc

WindowEntries == {xrayEntry(t, f, f) : t \in 0..MaxTime, f \in {50, 2000000}}

InitWindow ==
    \E es \in {x \in SeqsUpTo(WindowEntries, MaxRows) : IsSorted(x)} :
        \E h \in 1..MaxHours : Start("call", 0, <<>>, es, h, <<>>)

CallGetLastNHoras ==
    /\ pc = "call"
    /\ data2h' = getLastNHoras(entries, hours)
    /\ pc' = "ret"
    /\ UNCHANGED <<response, flux, label, rows, entries, hours, dataSummary,
                   payload, csvFile, jsonFile, stdout, err>>

SpecWindow == InitWindow /\ [][CallGetLastNHoras]_vars

\* C6: for a time-sorted sequence and positive hours, getLastNHoras returns
\* exactly the samples whose time lies in [anchor - hours, anchor], anchor
\* being the time of the last sample: what is returned is the tail of the
\* sequence that starts at the first sample not older than anchor - hours;
\* the empty sequence yields the empty sequence.
C6_ClosedWindow ==
    pc = "ret" =>
        IF entries = <<>> THEN data2h = <<>>
        ELSE LET anchor == entries[Len(entries)].time_utc IN
             \E k \in 1..Len(entries) :
                /\ data2h = SubSeq(entries, k, Len(entries))
                /\ \A j \in 1..(k - 1) :
                      entries[j].time_utc < anchor - hours
                /\ \A j \in k..Len(entries) :
                      /\ anchor - hours <= entries[j].time_utc
                      /\ entries[j].time_utc <= anchor

C6_Witness ==
    /\ pc = "ret"
    /\ Len(entries) = 3
    /\ Len(data2h) = 2
    /\ data2h[1].time_utc = entries[3].time_utc - hours
    /\ data2h[2].time_utc = entries[3].time_utc

\* --------------------------------------------------- summary, on its own

SliceEntries ==
    {xrayEntry(t, f, f) : t \in 0..MaxTime, f \in {50, 55000, 2000000}}

InitSummary ==
    \E es \in {x \in SeqsUpTo(SliceEntries, MaxRows) : IsSorted(x)} :
        Start("call", 0, <<>>, <<>>, 0, es)

CallSummary ==
    /\ pc = "call"
    /\ LET r == summary(data2h) IN
       IF r.ok THEN /\ dataSummary' = <<r.val>>
                    /\ pc' = "ret"
                    /\ err' = err
               ELSE /\ dataSummary' = dataSummary
                    /\ pc' = "raised"
                    /\ err' = r.exc
    /\ UNCHANGED <<response, flux, label, rows, entries, hours, data2h,
                   payload, csvFile, jsonFile, stdout>>

SpecSummary == InitSummary /\ [][CallSummary]_vars

\* The largest flux of a non-empty slice.
Largest(es) ==
    CHOOSE v \in {e.flux : e \in Range(es)} : \A e \in Range(es) : e.flux <= v

\* C3: for a non-empty time-sorted slice, summary's record has max_flux =
\* the largest flux of the slice, max_class = flare_class of it, start and
\* end time = the first and last sample's time, count = the slice's length,
\* current flux = the last sample's flux; for a single sample start = end,
\* count = 1 and current flux = max flux.
C3_SummaryFields ==
    pc = "ret" =>
        LET r == dataSummary[1] IN
        /\ r.max_flux = JNum(Largest(data2h))
        /\ r.max_class = JStr(flare_class(Largest(data2h)))
        /\ r.start_time_utc = isoformat(data2h[1].time_utc)
        /\ r.end_time_utc = isoformat(data2h[Len(data2h)].time_utc)
        /\ r.amount_of_nodes = Len(data2h)
        /\ r.current_flux = JNum(data2h[Len(data2h)].flux)
        /\ Len(data2h) = 1 =>
              /\ r.start_time_utc = r.end_time_utc
              /\ r.amount_of_nodes = 1
              /\ r.current_flux = r.max_flux

\* --------------------------------------------- x_flare_Alert, on its own

AlertEntries ==
    {xrayEntry(0, f, f) : f \in {0, 55000, 999999, 1000000, 2000000}}

InitAlert ==
    \E es \in SeqsUpTo(AlertEntries, MaxRows) :
        Start("call", 0, <<>>, <<>>, 0, es)

CallXFlareAlert ==
    /\ pc = "call"
    /\ stdout' = stdout \o x_flare_Alert(data2h)
    /\ pc' = "ret"
    /\ UNCHANGED <<response, flux, label, rows, entries, hours, data2h,
                   dataSummary, payload, csvFile, jsonFile, err>>

SpecAlert == InitAlert /\ [][CallXFlareAlert]_vars

Alerted == ALERT \in Range(stdout)

\* C2: the alert is raised if and only if the slice is non-empty and its
\* maximum flux is >= 1e-4; never for the empty slice or a slice whose
\* maximum is below 1e-4, always for a slice whose maximum is 2e-4.
C2_AlertIffXClass ==
    pc = "ret" =>
        /\ Alerted <=> (data2h # <<>> /\ Largest(data2h) >= 1000000)
        /\ data2h = <<>> => ~Alerted
        /\ (data2h # <<>> /\ Largest(data2h) = 2000000) => Alerted

C2_Witness ==
    /\ pc = "ret"
    /\ Len(data2h) = 2
    /\ Largest(data2h) = 1000000
    /\ Alerted

\* ------------------------------------------------- save_file, on its own

ExportEntries ==
    {xrayEntry(t, f, f) : t \in 0..MaxTime, f \in {50, 2000000}}

InitExport ==
    \E es \in SeqsUpTo(ExportEntries, MaxRows) :
        Start("call", 0, <<>>, <<>>, 0, es)

CallSaveFile ==
    /\ pc = "call"
    /\ csvFile' = save_file(data2h)
    /\ pc' = "ret"
    /\ UNCHANGED <<response, flux, label, rows, entries, hours, data2h,
                   dataSummary, payload, jsonFile, stdout, err>>

SpecExport == InitExport /\ [][CallSaveFile]_vars

\* C8: the file save_file writes is one header line followed by one line
\* per sample, and timeConvert of the first field of the line of each
\* sample, the first one included, is that sample's UTC instant.
C8_RoundTrip ==
    pc = "ret" =>
        LET ls == Lines(csvFile) IN
        /\ Len(ls) = 1 + Len(data2h)
        /\ ls[1] = Header
        /\ \A k \in DOMAIN data2h :
              /\ Fields(ls[k + 1]) # <<>>
              /\ ParseTimeField(Fields(ls[k + 1])[1]) = Ok(data2h[k].time_utc)

\* -------------------------------------------------------------- __main__

FETCHED == "NOAA : XRAYS-1-DAY JSON FETCHED"
SUMMARY_JSON == "json.dumps(dataSummary, indent=2)"
WROTE == "Wrote: csv file, json file"

SRC_URL == "https://services.swpc.noaa.gov/json/goes/primary/xrays-1-day.json"

\* The records a provider's list is made of: in and out of the band, the
\* band padded with blanks, no "energy" key, a malformed timestamp, an
\* X-class reading, and readings more than two hours apart.
FeedRecords ==
    { Raw(Band, TRUE, N0, Num(50), Absent),
      Raw(Band, TRUE, TimeStr(TRUE, 2 * TicksPerHour, "Z"), Num(2000000),
          Absent),
      Raw(Band, TRUE, TimeStr(TRUE, 2 * TicksPerHour + 1, "Z"), Num(55000),
          Num(7)),
      Raw(Band, TRUE, Garbage, Num(50), Absent),
      Raw(Energy(1, "0.1-0.8nm", 1), TRUE, Z1, Num(1000000), Absent),
      Raw(Energy(0, "0.05-0.4nm", 0), TRUE, Z1, Num(2000000), Absent),
      Raw(NoEnergy, TRUE, Z1, Num(50), Absent) }

Responses ==
    {Response("ok", TRUE, b) : b \in SeqsUpTo(FeedRecords, MaxRows)}
        \cup {Response("ok", FALSE, <<>>), Response("http_error", FALSE, <<>>)}

Init ==
    /\ pc = "fetch"
    /\ response \in Responses
    /\ flux = 0
    /\ label = NoLabel
    /\ rows = <<>>
    /\ entries = <<>>
    /\ hours = 0
    /\ data2h = <<>>
    /\ dataSummary = <<>>
    /\ payload = <<>>
    /\ csvFile = <<>>
    /\ jsonFile = <<>>
    /\ stdout = <<>>
    /\ err = ""

Fail(e) == pc' = "error" /\ err' = e

\* line 221: fetch_json(SRC_URL)
MainFetch ==
    /\ pc = "fetch"
    /\ \/ /\ response.status # "ok"
          /\ Fail("HTTPError")
          /\ UNCHANGED <<rows, stdout>>
       \/ /\ response.status = "ok" /\ ~response.is_list
          /\ Fail("ValueError")
          /\ UNCHANGED <<rows, stdout>>
       \/ /\ response.status = "ok" /\ response.is_list
          /\ rows' = response.body
          /\ stdout' = Append(stdout, FETCHED)
          /\ pc' = "filter"
          /\ err' = err
    /\ UNCHANGED <<response, flux, label, entries, hours, data2h, dataSummary,
                   payload, csvFile, jsonFile>>

\* lines 224-227: filter_data, and the check that something is left
MainFilter ==
    /\ pc = "filter"
    /\ rows' = filter_data(rows, Band)
    /\ \/ /\ rows' = <<>>
          /\ Fail("RuntimeError")
       \/ /\ rows' # <<>>
          /\ pc' = "split"
          /\ err' = err
    /\ UNCHANGED <<response, flux, label, entries, hours, data2h, dataSummary,
                   payload, csvFile, jsonFile, stdout>>

\* line 232: split_entries(data)
MainSplit ==
    /\ pc = "split"
    /\ LET r == split_entries(rows) IN
       IF r.ok THEN entries' = r.val /\ pc' = "window" /\ err' = err
               ELSE entries' = entries /\ Fail(r.exc)
    /\ UNCHANGED <<response, flux, label, rows, hours, data2h, dataSummary,
                   payload, csvFile, jsonFile, stdout>>

\* line 237: getLastNHoras(data, 2)
MainWindow ==
    /\ pc = "window"
    /\ hours' = 2 * TicksPerHour
    /\ data2h' = getLastNHoras(entries, hours')
    /\ pc' = "summary"
    /\ UNCHANGED <<response, flux, label, rows, entries, dataSummary, payload,
                   csvFile, jsonFile, stdout, err>>

\* line 240: summary(data2h)
MainSummary ==
    /\ pc = "summary"
    /\ LET r == summary(data2h) IN
       \/ /\ ~r.ok
          /\ Fail(r.exc)
          /\ UNCHANGED dataSummary
       \/ /\ r.ok
          /\ dataSummary' = <<r.val>>
          /\ pc' = "payload"
          /\ err' = err
    /\ UNCHANGED <<response, flux, label, rows, entries, hours, data2h,
                   payload, csvFile, jsonFile, stdout>>

PayloadEntry(i) ==
    [time_utc |-> isoformat(i.time_utc), flux |-> i.flux,
     observed_flux |-> i.observed_flux, flare_class |-> flare_class(i.flux)]

\* lines 242-255
MainPayload ==
    /\ pc = "payload"
    /\ payload' = << [Source_URL |-> SRC_URL,
                      energy |-> Band,
                      two_hour_summary |-> dataSummary[1],
                      entries_twoHour |->
                          [k \in DOMAIN data2h |-> PayloadEntry(data2h[k])]] >>
    /\ pc' = "show"
    /\ UNCHANGED <<response, flux, label, rows, entries, hours, data2h,
                   dataSummary, csvFile, jsonFile, stdout, err>>

\* line 257
MainShowSummary ==
    /\ pc = "show"
    /\ stdout' = Append(stdout, SUMMARY_JSON)
    /\ pc' = "save"
    /\ UNCHANGED <<response, flux, label, rows, entries, hours, data2h,
                   dataSummary, payload, csvFile, jsonFile, err>>

\* line 258
MainSaveFile ==
    /\ pc = "save"
    /\ csvFile' = save_file(data2h)
    /\ pc' = "write"
    /\ UNCHANGED <<response, flux, label, rows, entries, hours, data2h,
                   dataSummary, payload, jsonFile, stdout, err>>

\* lines 259-260
MainWriteFile ==
    /\ pc = "write"
    /\ jsonFile' = payload
    /\ stdout' = Append(stdout, WROTE)
    /\ pc' = "done"
    /\ UNCHANGED <<response, flux, label, rows, entries, hours, data2h,
                   dataSummary, payload, csvFile, err>>

Next ==
    \/ MainFetch
    \/ MainFilter
    \/ MainSplit
    \/ MainWindow
    \/ MainSummary
    \/ MainPayload
    \/ MainShowSummary
    \/ MainSaveFile
    \/ MainWriteFile

Spec == Init /\ [][Next]_vars

Emitted ==
    \/ dataSummary # <<>>
    \/ payload # <<>>
    \/ csvFile # <<>>
    \/ jsonFile # <<>>
    \/ SUMMARY_JSON \in Range(stdout)
    \/ WROTE \in Range(stdout)

\* C9: a run in which filtering leaves no record of the band, or in which
\* the window handed to summary is empty, ends in an error without any
\* summary, CSV or JSON emitted: nothing is emitted from an empty window,
\* a run past the filter has records, and a failed run has emitted nothing.
C9_EmptinessSurfaced ==
    /\ pc \in {"split", "window", "summary", "payload", "show", "save",
               "write", "done"} => rows # <<>>
    /\ pc \in {"payload", "show", "save", "write", "done"} => data2h # <<>>
    /\ Emitted => data2h # <<>>
    /\ pc = "error" => ~Emitted
    /\ (pc = "error" /\ err = "RuntimeError") => rows = <<>>

C9_Witness ==
    /\ pc = "error"
    /\ err = "ValueError"
    /\ rows # <<>>
    /\ data2h = <<>>
    /\ ~Emitted

\* C10: in every run the windowed slice is handed to the Alert Evaluator
\* before the payload is emitted, so a run that emits a window whose maximum
\* flux is >= 1e-4 has raised the X-class detection signal.
C10_AlertBeforeEmit ==
    (pc \in {"show", "save", "write", "done"} /\ Largest(data2h) >= 1000000)
        => Alerted

====
